---- MODULE Spec2Model ----
(***************************************************************************)
(* HDF5PackedAttributeClassifications of pyscm                             *)
(* (pyscm/binary_attributes/classifications/hdf5.py).                      *)
(*                                                                         *)
(* A logical boolean matrix is split over several backing datasets.  A     *)
(* dataset is a 2-D array of packed words: word [p][c] holds, most         *)
(* significant bit first, the values of column c for the physical rows     *)
(* p * dataset_pack_size .. (p + 1) * dataset_pack_size - 1.               *)
(*                                                                         *)
(* Representation.  Python lists and numpy arrays indexed from 0 are       *)
(* functions over 0 .. n - 1, except the lists the code only appends to    *)
(* and iterates over (rows, removed rows, relative rows), which are        *)
(* sequences.  A packed word is the set of its set bit positions: bit b    *)
(* has the value 2^b, so that "|" is \cup, "&" is \cap, "^" is the         *)
(* symmetric difference, "!= 0" is "# {}" and the population count is      *)
(* Cardinality.  Dataset ids are 0-based as in the code and -1 is the      *)
(* locator's not-found value.                                              *)
(***************************************************************************)
EXTENDS Integers, Sequences, FiniteSets, TLC

VARIABLES datasets, dataset_initial_n_rows, dataset_n_rows,
          dataset_removed_rows, dataset_start_example, dataset_stop_example,
          initial_total_n_rows, total_n_rows, call

vars == <<datasets, dataset_initial_n_rows, dataset_n_rows,
          dataset_removed_rows, dataset_start_example, dataset_stop_example,
          initial_total_n_rows, total_n_rows, call>>

----------------------------------------------------------------------------
(* Bounds of the model *)

\* declared rows of the small dataset
Small == 1
\* rows of the large dataset beyond one full packed word
Extra == 2
\* number of bit patterns the backing data is drawn from
NPatterns == 1
\* longest list of rows handed to remove_rows / sum_rows
MaxBatch == 2
\* remove_rows is explored while fewer than this many rows have been removed
MaxRemoved == 2
\* number of columns of every dataset (datasets[0].shape[1])
dataset_n_cols == 2
\* datasets[0].chunks[0]
row_block_size == 1
\* datasets[0].chunks[1]
col_block_size == 1

(* Program constants *)

\* bits per packed word for np.uint32 data
dataset_pack_size == 32
\* np.iinfo(np.uint8).max
UINT8_MAX == 255
\* np.iinfo(np.uint16).max
UINT16_MAX == 65535

----------------------------------------------------------------------------
(* Helpers for Python / numpy primitives *)

\* int(ceil(float(a) / b)) for a >= 0, b > 0
CeilDiv(a, b) == (a + b - 1) \div b

Min(a, b) == IF a < b THEN a ELSE b

\* an array with every element evaluated once
np_array(f) == f @@ <<>>

SeqToSet(s) == {s[k] : k \in 1 .. Len(s)}

RECURSIVE SortedList(_)
\* sorted(S) for a finite set S of integers
SortedList(S) ==
    IF S = {} THEN <<>>
    ELSE LET m == CHOOSE x \in S : \A y \in S : x <= y
         IN <<m>> \o SortedList(S \ {m})

RECURSIVE Insert(_, _)
Insert(s, x) ==
    IF s = <<>> THEN <<x>>
    ELSE IF x <= Head(s) THEN <<x>> \o s
    ELSE <<Head(s)>> \o Insert(Tail(s), x)

RECURSIVE np_sort(_)
\* np.sort(rows): ascending, duplicates kept
np_sort(rows) ==
    IF rows = <<>> THEN <<>>
    ELSE Insert(np_sort(Tail(rows)), Head(rows))

RECURSIVE SumSeq(_)
SumSeq(s) == IF s = <<>> THEN 0 ELSE Head(s) + SumSeq(Tail(s))

\* sum() of a 0-based array of numbers
Sum0(f, n) == SumSeq([k \in 1 .. n |-> f[k - 1]])

RECURSIVE Pow2(_)
Pow2(n) == IF n = 0 THEN 1 ELSE 2 * Pow2(n - 1)

DS == 0 .. Len(<<Small, dataset_pack_size + Extra>>) - 1
NDatasets == Cardinality(DS)
Columns == 0 .. dataset_n_cols - 1
BitPositions == 0 .. dataset_pack_size - 1

----------------------------------------------------------------------------
(* Construction *)

\* n_rows given to the constructor, one entry per dataset
InitialNRows == [i \in DS |-> <<Small, dataset_pack_size + Extra>>[i + 1]]

\* dataset.shape[0]: packed rows needed to hold the declared rows
NPackedRows(i) == CeilDiv(InitialNRows[i], dataset_pack_size)

\* value of column c at physical row r of dataset i in bit pattern k
DataBit(k, i, r, c) == (r + i + k) % (c + 2) = 0

\* the backing datasets for bit pattern k, rows packed most significant bit first
Data(k) ==
    [i \in DS |->
        [p \in 0 .. NPackedRows(i) - 1 |->
            [c \in Columns |->
                {b \in BitPositions :
                    DataBit(k, i, p * dataset_pack_size
                                  + (dataset_pack_size - 1 - b), c)}]]]

\* the object's index fields as one value
self == [datasets               |-> datasets,
         dataset_initial_n_rows |-> dataset_initial_n_rows,
         dataset_n_rows         |-> dataset_n_rows,
         dataset_removed_rows   |-> dataset_removed_rows,
         dataset_start_example  |-> dataset_start_example,
         dataset_stop_example   |-> dataset_stop_example,
         total_n_rows           |-> total_n_rows]

RECURSIVE InitialStop(_, _)
\* __init__: dataset_stop_example[i] = previous_dataset_stop + dataset_n_rows[i]
InitialStop(n_rows, i) ==
    IF i = 0 THEN n_rows[0] ELSE InitialStop(n_rows, i - 1) + n_rows[i]

\* __init__: dataset_start_example[i] = 0 or dataset_stop_example[i - 1]
InitialStart(n_rows, i) ==
    IF i = 0 THEN 0 ELSE InitialStop(n_rows, i - 1)

----------------------------------------------------------------------------
(* shape and the row locator *)

shape(obj) == <<obj.total_n_rows, dataset_n_cols>>

RECURSIVE ScanDatasets(_, _, _)
ScanDatasets(obj, row_idx, i) ==
    IF i = NDatasets THEN -1
    ELSE IF obj.dataset_stop_example[i] > row_idx
            /\ row_idx >= obj.dataset_start_example[i]
         THEN i
         ELSE ScanDatasets(obj, row_idx, i + 1)

\* first dataset whose half-open range holds row_idx, else -1
_get_row_dataset(obj, row_idx) == ScanDatasets(obj, row_idx, 0)

----------------------------------------------------------------------------
(* get_column *)

\* _unpack_binary_bytes_from_ints(dataset[:, column]): one 0/1 per physical
\* slot, most significant bit of each word first
_unpack_binary_bytes_from_ints(words, n_words) ==
    [r \in 0 .. n_words * dataset_pack_size - 1 |->
        IF (dataset_pack_size - 1 - (r % dataset_pack_size))
               \in words[r \div dataset_pack_size]
        THEN 1 ELSE 0]

\* the keep-mask of dataset i: physical slots below the declared row count
\* that are not in the removed list
row_mask_of(obj, i) ==
    LET removed == SeqToSet(obj.dataset_removed_rows[i])
    IN [r \in 0 .. NPackedRows(i) * dataset_pack_size - 1 |->
           /\ r < obj.dataset_initial_n_rows[i]
           /\ r \notin removed]

\* unpacked[row_mask]: the kept values of dataset i in physical order
kept_values(obj, i, column) ==
    LET unpacked == _unpack_binary_bytes_from_ints(
                        [p \in 0 .. NPackedRows(i) - 1 |->
                            obj.datasets[i][p][column]], NPackedRows(i))
        mask  == row_mask_of(obj, i)
        slots == [k \in 1 .. NPackedRows(i) * dataset_pack_size |-> k - 1]
        kept  == SelectSeq(slots, LAMBDA r : mask[r])
    IN np_array([k \in 1 .. Len(kept) |-> unpacked[kept[k]]])

\* get_column: result[start:stop] of every dataset, in dataset order, is
\* assigned its kept values; numpy broadcasts a single value and raises
\* ValueError for any other difference of lengths
get_column(obj, column) ==
    LET vals == np_array([i \in DS |-> kept_values(obj, i, column)])
        slice == np_array([i \in DS |->
                     {g \in 0 .. obj.total_n_rows - 1 :
                         /\ obj.dataset_start_example[i] <= g
                         /\ g < obj.dataset_stop_example[i]}])
        fits == [i \in DS |-> \/ Len(vals[i]) = Cardinality(slice[i])
                              \/ Len(vals[i]) = 1]
    IN IF \A i \in DS : fits[i]
       THEN [raised |-> "",
             value  |-> [g \in 0 .. obj.total_n_rows - 1 |->
                            LET writers == {i \in DS : g \in slice[i]}
                            IN IF writers = {} THEN 0
                               ELSE LET i == CHOOSE w \in writers :
                                                 \A v \in writers : v <= w
                                    IN IF Len(vals[i]) = 1 THEN vals[i][1]
                                       ELSE vals[i][g - obj.dataset_start_example[i] + 1]]]
       ELSE [raised |-> "ValueError", value |-> <<>>]

----------------------------------------------------------------------------
(* remove_rows *)

RECURSIVE locate_removed(_, _, _, _)
\* the first loop of remove_rows: relative index of every row, per dataset
locate_removed(obj, rows, k, acc) ==
    IF k > Len(rows) THEN [raised |-> "", dataset_removed_rows |-> acc]
    ELSE LET row_idx == rows[k]
             ds_idx  == _get_row_dataset(obj, row_idx)
         IN IF ds_idx = -1
            THEN [raised |-> "IndexError", dataset_removed_rows |-> acc]
            ELSE locate_removed(obj, rows, k + 1,
                     [acc EXCEPT ![ds_idx] =
                         Append(@, row_idx - obj.dataset_start_example[ds_idx])])

\* merge_removed without the set(): a row removed again is listed twice
merge_removed_keep_duplicates(old_rows, new_rows) == np_sort(old_rows \o new_rows)

\* sorted(set(self.dataset_removed_rows[i] + dataset_removed_rows[i]))
merge_removed(old_rows, new_rows) == SortedList(SeqToSet(old_rows \o new_rows))

RECURSIVE update_datasets_stale(_, _, _)
\* update_datasets with the offsets recomputed only for the datasets that
\* lost rows (the two assignments moved under the "if")
update_datasets_stale(obj, new_rows, i) ==
    IF i = NDatasets THEN obj
    ELSE LET merged == merge_removed(obj.dataset_removed_rows[i], new_rows[i])
             previous_stop == IF i = 0 THEN 0
                              ELSE obj.dataset_stop_example[i - 1]
             o1 == IF Len(new_rows[i]) > 0
                   THEN [obj EXCEPT
                            !.dataset_removed_rows[i] = merged,
                            !.dataset_n_rows[i] =
                                obj.dataset_initial_n_rows[i] - Len(merged),
                            !.dataset_stop_example[i] =
                                obj.dataset_initial_n_rows[i] - Len(merged)
                                    + previous_stop,
                            !.dataset_start_example[i] = previous_stop]
                   ELSE obj
         IN update_datasets_stale(o1, new_rows, i + 1)

RECURSIVE update_datasets(_, _, _)
\* the second loop of remove_rows, dataset i onwards
update_datasets(obj, new_rows, i) ==
    IF i = NDatasets THEN obj
    ELSE LET merged == merge_removed(obj.dataset_removed_rows[i], new_rows[i])
             o1 == IF Len(new_rows[i]) > 0
                   THEN [obj EXCEPT
                            !.dataset_removed_rows[i] = merged,
                            !.dataset_n_rows[i] =
                                obj.dataset_initial_n_rows[i] - Len(merged)]
                   ELSE obj
             previous_stop == IF i = 0 THEN 0
                              ELSE o1.dataset_stop_example[i - 1]
             o2 == [o1 EXCEPT
                       !.dataset_stop_example[i] =
                           o1.dataset_n_rows[i] + previous_stop,
                       !.dataset_start_example[i] = previous_stop]
         IN update_datasets(o2, new_rows, i + 1)

\* remove_rows updating the object with the rows located before the failure
remove_rows_partial(obj, rows) ==
    LET located == locate_removed(obj, rows, 1, [i \in DS |-> <<>>])
        o == update_datasets(obj, located.dataset_removed_rows, 0)
    IN [raised |-> located.raised,
        obj |-> [o EXCEPT !.total_n_rows = Sum0(o.dataset_n_rows, NDatasets)]]

\* remove_rows(rows): the outcome and the object after the call
remove_rows(obj, rows) ==
    LET located == locate_removed(obj, rows, 1, [i \in DS |-> <<>>])
    IN IF located.raised # ""
       THEN [raised |-> located.raised, obj |-> obj]
       ELSE LET o == update_datasets(obj, located.dataset_removed_rows, 0)
            IN [raised |-> "",
                obj |-> [o EXCEPT !.total_n_rows =
                                      Sum0(o.dataset_n_rows, NDatasets)]]

----------------------------------------------------------------------------
(* sum_rows *)

\* _column_sum_dtype: bits of the unsigned type chosen for n rows (the uint32
\* and uint64 branches lie beyond the row counts of the model)
_column_sum_dtype(n) ==
    IF n <= UINT8_MAX THEN 8
    ELSE IF n <= UINT16_MAX THEN 16
    ELSE 32

\* or_bit with the bit toggled instead of set ("^=" for "|=")
xor_bit(word, example_mask_idx) ==
    (word \ {example_mask_idx}) \cup ({example_mask_idx} \ word)

\* masks[example_mask] |= 1 << example_mask_idx
or_bit(word, example_mask_idx) == word \cup {example_mask_idx}

RECURSIVE set_mask_bits(_, _, _, _)
\* the loop of build_row_mask over example_idx; a word index past the end of
\* the list raises IndexError
set_mask_bits(example_idx, k, masks, mask_n_bits) ==
    IF k > Len(example_idx) THEN [raised |-> "", masks |-> masks]
    ELSE LET idx == example_idx[k]
             example_mask == idx \div mask_n_bits
             example_mask_idx ==
                 mask_n_bits - (idx - mask_n_bits * example_mask) - 1
         IN IF example_mask \notin DOMAIN masks
            THEN [raised |-> "IndexError", masks |-> masks]
            ELSE set_mask_bits(example_idx, k + 1,
                     [masks EXCEPT ![example_mask] =
                         or_bit(@, example_mask_idx)],
                     mask_n_bits)

build_row_mask(example_idx, n_examples, mask_n_bits) ==
    IF mask_n_bits \notin {8, 16, 32, 64, 128}
    THEN [raised |-> "ValueError", masks |-> <<>>]
    ELSE LET n_masks == CeilDiv(n_examples, mask_n_bits)
         IN set_mask_bits(example_idx, 1,
                          [m \in 0 .. n_masks - 1 |-> {}], mask_n_bits)

\* len(np.where(np.array(removed) <= relative_row_idx)[0])
deleted_row_offset(removed, relative_row_idx) ==
    Cardinality({j \in 1 .. Len(removed) : removed[j] <= relative_row_idx})

RECURSIVE locate_relative(_, _, _, _)
\* the loop of sum_rows over the sorted rows: the relative row handed to the
\* mask builder, per dataset
locate_relative(obj, rows, k, acc) ==
    IF k > Len(rows) THEN [raised |-> "", dataset_relative_rows |-> acc]
    ELSE LET row_idx == rows[k]
             ds_idx  == _get_row_dataset(obj, row_idx)
         IN IF ds_idx # -1
            THEN LET relative_row_idx ==
                         row_idx - obj.dataset_start_example[ds_idx]
                     offset == deleted_row_offset(
                                   obj.dataset_removed_rows[ds_idx],
                                   relative_row_idx)
                 IN locate_relative(obj, rows, k + 1,
                        [acc EXCEPT ![ds_idx] =
                            Append(@, relative_row_idx + offset)])
            ELSE [raised |-> "IndexError", dataset_relative_rows |-> acc]

\* inplace_popcount_32(block, row_mask): row j of the block is reduced to the
\* population count of its words masked with the j-th word of row_mask
inplace_popcount(block, row_mask) ==
    [j \in DOMAIN block |->
        [c \in DOMAIN block[j] |->
            Cardinality(block[j][c] \cap row_mask[j - 1])]]

n_col_blocks == CeilDiv(dataset_n_cols, col_block_size)

\* np.where(row_mask != 0)[0]
rows_to_load_of(row_mask) ==
    SelectSeq([k \in 1 .. Cardinality(DOMAIN row_mask) |-> k - 1],
              LAMBDA p : row_mask[p] # {})

\* one pass of the body of the row_block / col_block loops on dataset i
popcount_block(obj, i, row_mask, rows_to_load, row_block, col_block) ==
    LET loaded == SubSeq(rows_to_load, row_block * row_block_size + 1,
                         Min((row_block + 1) * row_block_size,
                             Len(rows_to_load)))
        cols   == {c \in Columns : /\ col_block * col_block_size <= c
                                   /\ c < (col_block + 1) * col_block_size}
        block  == [j \in 1 .. Len(loaded) |->
                      [c \in cols |-> obj.datasets[i][loaded[j]][c]]]
        mask   == row_mask
    IN [dataset |-> i, loaded |-> loaded, cols |-> cols, mask |-> mask,
        counted |-> inplace_popcount(block, mask)]

\* the blocks of dataset i in loop order
dataset_blocks(obj, i, row_mask) ==
    IF Cardinality(DOMAIN row_mask) = 0 THEN <<>>
    ELSE LET rows_to_load == rows_to_load_of(row_mask)
             n_row_blocks == CeilDiv(Len(rows_to_load), row_block_size)
         IN np_array([k \in 1 .. n_row_blocks * n_col_blocks |->
                popcount_block(obj, i, row_mask, rows_to_load,
                               (k - 1) \div n_col_blocks,
                               (k - 1) % n_col_blocks)])

\* np.sum(block, axis = 0)[c] for a column of the block, else nothing
block_column_sum(b, c) ==
    IF c \in b.cols
    THEN SumSeq([j \in 1 .. Len(b.loaded) |-> b.counted[j][c]])
    ELSE 0

\* sum_rows(rows): the outcome, the result and what the call handed to the
\* mask builder and to the popcount primitive
sum_rows(obj, rows) ==
    LET result_bits == _column_sum_dtype(Len(rows))
        located == locate_relative(obj, np_sort(rows), 1,
                                   [i \in DS |-> <<>>])
        relative == located.dataset_relative_rows
        built == np_array([i \in DS |->
                    IF Len(relative[i]) > 0
                    THEN build_row_mask(relative[i], obj.dataset_n_rows[i],
                                        dataset_pack_size)
                    ELSE [raised |-> "", masks |-> <<>>]])
        dataset_row_masks == np_array([i \in DS |-> built[i].masks])
        blocks == np_array([i \in DS |->
                     dataset_blocks(obj, i, dataset_row_masks[i])])
        failed == located.raised # "" \/ \E i \in DS : built[i].raised # ""
    IN [raised |-> IF failed THEN "IndexError" ELSE "",
        dataset_relative_rows |-> relative,
        mask_n_examples |->
            IF located.raised # "" THEN <<>>
            ELSE [i \in {d \in DS : Len(relative[d]) > 0} |->
                     obj.dataset_n_rows[i]],
        dataset_row_masks |->
            IF failed THEN <<>> ELSE dataset_row_masks,
        popcount_calls |->
            IF failed THEN {}
            ELSE UNION {{[dataset |-> i, loaded |-> blocks[i][k].loaded,
                          mask |-> blocks[i][k].mask] :
                            k \in 1 .. Len(blocks[i])} : i \in DS},
        result |->
            IF failed THEN <<>>
            ELSE [c \in Columns |->
                     SumSeq([n \in 1 .. NDatasets |->
                         SumSeq([k \in 1 .. Len(blocks[n - 1]) |->
                             block_column_sum(blocks[n - 1][k], c)])])
                       % Pow2(result_bits)]]

----------------------------------------------------------------------------
(* Inputs *)

\* the rows below 0 and past the end, and the first, second and last row of
\* every dataset that has rows
RowInputs ==
    {-1, total_n_rows}
        \cup UNION {{dataset_start_example[i],
                     Min(dataset_start_example[i] + 1,
                         dataset_stop_example[i] - 1),
                     dataset_stop_example[i] - 1} :
                       i \in {d \in DS : dataset_n_rows[d] > 0}}

\* lists of at most MaxBatch rows
RowLists == UNION {[1 .. n -> RowInputs] : n \in 0 .. MaxBatch}

\* sum_rows sorts its rows first: its lists are given in ascending order
SortedRowLists == {rows \in RowLists : rows = np_sort(rows)}

----------------------------------------------------------------------------
(* Specification *)

Init ==
    /\ datasets \in {Data(k) : k \in 1 .. NPatterns}
    /\ dataset_initial_n_rows = InitialNRows
    /\ dataset_n_rows = InitialNRows
    /\ dataset_removed_rows = [i \in DS |-> <<>>]
    /\ dataset_stop_example = [i \in DS |-> InitialStop(InitialNRows, i)]
    /\ dataset_start_example = [i \in DS |-> InitialStart(InitialNRows, i)]
    /\ initial_total_n_rows = Sum0(InitialNRows, NDatasets)
    /\ total_n_rows = Sum0(InitialNRows, NDatasets)
    /\ call = [op |-> "__init__"]

\* A behaviour is a run of remove_rows calls that ends with the first query
\* (get_column and sum_rows change no field, so nothing new follows one) or
\* with the first call that raises (the exception ends the calling script).
Mutating ==
    \/ call.op = "__init__"
    \/ call.op = "remove_rows" /\ call.raised = ""

RemoveRows ==
    /\ Mutating
    /\ initial_total_n_rows - total_n_rows < MaxRemoved
    /\ \E rows \in RowLists :
         \E r \in {remove_rows(self, rows)} :
            /\ dataset_n_rows' = r.obj.dataset_n_rows
            /\ dataset_removed_rows' = r.obj.dataset_removed_rows
            /\ dataset_start_example' = r.obj.dataset_start_example
            /\ dataset_stop_example' = r.obj.dataset_stop_example
            /\ total_n_rows' = r.obj.total_n_rows
            /\ call' = [op |-> "remove_rows", rows |-> rows,
                        raised |-> r.raised]
    /\ UNCHANGED <<datasets, dataset_initial_n_rows, initial_total_n_rows>>

GetColumn ==
    /\ Mutating
    /\ \E column \in Columns :
         call' = [op |-> "get_column", column |-> column,
                  out |-> get_column(self, column)]
    /\ UNCHANGED <<datasets, dataset_initial_n_rows, dataset_n_rows,
                   dataset_removed_rows, dataset_start_example,
                   dataset_stop_example, initial_total_n_rows,
                   total_n_rows>>

SumRows ==
    /\ Mutating
    /\ \E rows \in SortedRowLists :
         call' = [op |-> "sum_rows", rows |-> rows,
                  out |-> sum_rows(self, rows)]
    /\ UNCHANGED <<datasets, dataset_initial_n_rows, dataset_n_rows,
                   dataset_removed_rows, dataset_start_example,
                   dataset_stop_example, initial_total_n_rows,
                   total_n_rows>>

Next == RemoveRows \/ GetColumn \/ SumRows

Spec == Init /\ [][Next]_vars

\* the behaviours of remove_rows and get_column alone
NextRemove == RemoveRows \/ GetColumn

SpecRemove == Init /\ [][NextRemove]_vars

----------------------------------------------------------------------------
(* Properties *)

\* the last call was op, on a list of rows that are all inside the matrix
\* as numbered in state obj
ValidRows(rows, obj) ==
    \A k \in 1 .. Len(rows) : rows[k] >= 0 /\ rows[k] < obj.total_n_rows

Distinct(rows) ==
    \A j, k \in 1 .. Len(rows) : j # k => rows[j] # rows[k]

\* a 0-based array with the positions in R deleted
DeleteAt(f, R) ==
    LET n == Cardinality(DOMAIN f)
        left == SelectSeq([k \in 1 .. n |-> k - 1], LAMBDA g : g \notin R)
    IN [g \in 0 .. Len(left) - 1 |-> f[left[g + 1]]]

\* the physical rows of dataset i that are not removed, ascending
kept_rows(obj, i) ==
    LET removed == SeqToSet(obj.dataset_removed_rows[i])
    IN SelectSeq([k \in 1 .. obj.dataset_initial_n_rows[i] |-> k - 1],
                 LAMBDA r : r \notin removed)

SumCalled == call.op = "sum_rows" /\ ValidRows(call.rows, self)

\* C1: sum_rows on distinct valid rows returns, for every column, the number
\* of the given rows whose get_column value is true, and does not fail.
C1_SumCorrectness ==
    (SumCalled /\ Distinct(call.rows)) =>
        /\ call.out.raised = ""
        /\ \A c \in Columns :
              call.out.result[c] =
                  Cardinality({k \in 1 .. Len(call.rows) :
                      get_column(self, c).value[call.rows[k]] = 1})

\* C2: a valid remove_rows(R) turns every get_column(c) into the pre-call
\* get_column(c) with exactly the positions in R deleted.
C2_RemoveDeletesPositions ==
    [][(/\ call'.op = "remove_rows"
        /\ ValidRows(call'.rows, self))
       => LET before == self
              after  == self'
          IN \A c \in Columns :
                get_column(after, c).value =
                    DeleteAt(get_column(before, c).value,
                             SeqToSet(call'.rows))]_vars

\* C3: remove_rows(R) called a second time right after it succeeded succeeds
\* again and changes neither the shape nor any column.
C3_RemoveIdempotent ==
    [][(/\ call.op = "remove_rows" /\ call.raised = ""
        /\ call'.op = "remove_rows" /\ call'.rows = call.rows)
       => LET once  == self
              twice == self'
          IN /\ call'.raised = ""
             /\ shape(twice) = shape(once)
             /\ \A c \in Columns :
                   get_column(twice, c) = get_column(once, c)]_vars

HasInvalidRow(rows, obj) ==
    \E k \in 1 .. Len(rows) : rows[k] < 0 \/ rows[k] >= obj.total_n_rows

\* C4: a remove_rows call whose list holds a row < 0 or >= total_n_rows, at
\* any position, raises IndexError and leaves the removed rows, the row
\* counts, the start and stop offsets and the total row count as they were.
C4_RemoveAllOrNothing ==
    [][(call'.op = "remove_rows" /\ HasInvalidRow(call'.rows, self))
       => /\ call'.raised = "IndexError"
          /\ UNCHANGED <<dataset_removed_rows, dataset_n_rows,
                         dataset_start_example, dataset_stop_example,
                         total_n_rows>>
          /\ shape(self)' = shape(self)]_vars

\* a failed call whose invalid row follows a valid one, after an earlier removal
C4_Witness ==
    /\ call.op = "remove_rows"
    /\ call.raised = "IndexError"
    /\ Len(call.rows) >= 2
    /\ call.rows[1] >= 0 /\ call.rows[1] < total_n_rows
    /\ total_n_rows < initial_total_n_rows

\* C5: the row count of the shape is the sum of the declared row counts less
\* the removed rows, every removed list is a duplicate-free list of rows
\* below the declared row count, and every column has as many values as the
\* shape has rows, dataset by dataset.
C5_ShapeInvariant ==
    /\ shape(self)[1] =
           SumSeq([n \in 1 .. NDatasets |->
                      dataset_initial_n_rows[n - 1]
                          - Len(dataset_removed_rows[n - 1])])
    /\ \A i \in DS :
          /\ Distinct(dataset_removed_rows[i])
          /\ SeqToSet(dataset_removed_rows[i])
                 \subseteq 0 .. dataset_initial_n_rows[i] - 1
          /\ LET mask == row_mask_of(self, i)
             IN Cardinality({r \in DOMAIN mask : mask[r]})
                    = dataset_stop_example[i] - dataset_start_example[i]
    /\ \A c \in Columns :
          LET column == get_column(self, c)
          IN /\ column.raised = ""
             /\ Cardinality(DOMAIN column.value) = shape(self)[1]

\* rows were removed from both datasets, by more than one call
C5_Witness ==
    /\ call.op = "remove_rows"
    /\ call.raised = ""
    /\ \A i \in DS : Len(dataset_removed_rows[i]) > 0
    /\ initial_total_n_rows - total_n_rows > Len(call.rows)

\* C6: the start of the first dataset is 0, every stop is the start plus the
\* current row count, every start is the previous stop, and the locator
\* finds exactly the one dataset whose range holds a row of the matrix and
\* nothing for a row outside the matrix.
C6_IndexContiguity ==
    /\ dataset_start_example[0] = 0
    /\ \A i \in DS :
          /\ dataset_stop_example[i]
                 = dataset_start_example[i] + dataset_n_rows[i]
          /\ i > 0 => dataset_start_example[i] = dataset_stop_example[i - 1]
    /\ dataset_stop_example[NDatasets - 1] = total_n_rows
    /\ \A g \in -2 .. total_n_rows + 2 :
          LET holders == {i \in DS : /\ dataset_start_example[i] <= g
                                     /\ g < dataset_stop_example[i]}
          IN IF g >= 0 /\ g < total_n_rows
             THEN /\ Cardinality(holders) = 1
                  /\ _get_row_dataset(self, g) \in holders
             ELSE /\ holders = {}
                  /\ _get_row_dataset(self, g) = -1

\* a removal has emptied the first dataset while the second keeps rows
C6_Witness ==
    /\ call.op = "remove_rows"
    /\ call.raised = ""
    /\ dataset_n_rows[0] = 0
    /\ dataset_n_rows[1] > 0
    /\ dataset_start_example[1] = 0

C8_MaskRowsInRange ==
    SumCalled =>
        \A i \in DOMAIN call.out.mask_n_examples :
            \A k \in 1 .. Len(call.out.dataset_relative_rows[i]) :
                LET idx == call.out.dataset_relative_rows[i][k]
                    n_examples == call.out.mask_n_examples[i]
                IN /\ idx >= 0
                   /\ idx < n_examples
                   /\ idx \div dataset_pack_size
                          < CeilDiv(n_examples, dataset_pack_size)

\* C9: the physical row sum_rows computes for the valid row g of dataset d is
\* the (g - start[d] + 1)-th row of d that is not removed: it is not in the
\* removed list and lies below the declared row count.
C9_PhysicalRow ==
    SumCalled =>
        \A i \in DS :
            LET rows_i == SelectSeq(np_sort(call.rows),
                              LAMBDA g : _get_row_dataset(self, g) = i)
                kept == kept_rows(self, i)
                physical == call.out.dataset_relative_rows[i]
            IN /\ Len(physical) = Len(rows_i)
               /\ \A j \in 1 .. Len(rows_i) :
                     /\ physical[j]
                            \notin SeqToSet(dataset_removed_rows[i])
                     /\ physical[j] < dataset_initial_n_rows[i]
                     /\ physical[j]
                            = kept[rows_i[j] - dataset_start_example[i] + 1]

\* C10: for every block handed to the popcount primitive, the mask word the
\* primitive applies to the j-th row of the block is the mask word of the
\* j-th packed row loaded into the block.
C10_MaskSliceMatchesBlock ==
    (SumCalled /\ call.out.raised = "") =>
        \A a \in call.out.popcount_calls :
            \A j \in 1 .. Len(a.loaded) :
                a.mask[j - 1]
                    = call.out.dataset_row_masks[a.dataset][a.loaded[j]]

====
